---- MODULE Spec2Model ----
(***************************************************************************)
(* A model of src/main.py: the extract -> transform -> load -> verify      *)
(* pipeline (my_flow) and its helpers number_of_rows_per_key, clean_column.*)
(*                                                                         *)
(* A text (column label) is a sequence of one-character strings.  A cell   *)
(* of a table is an integer; NaN stands for pandas' missing value.  A      *)
(* DataFrame is a record [columns, index, rows]: the labels, the row       *)
(* labels (a RangeIndex after read_csv) and the rows in order.             *)
(***************************************************************************)
EXTENDS Integers, Sequences, FiniteSets, TLC

VARIABLES
    pc,         \* position of my_flow: "extract", "transform", "create_engine",
                \* "load", "return", "done", "failed"; "lib" outside the flow
    response,   \* what requests.get returned: [status, body], or NoResponse
    parsed,     \* the text handed to pd.read_csv, or NoBody
    extracted,  \* the DataFrame extract returned, or NoDF
    lookup,     \* the DataFrame number_of_rows_per_key returned, or NoDF
    data,       \* my_flow's local `data`
    db,         \* the SQLite database behind `engine`: table name -> table
    num_rows,   \* what load returned, or NoCount
    result,     \* what my_flow returned, or NoResult
    error,      \* the exception that ended the run, or NoError
    loaded,     \* per table name, the DataFrame of the last load call on it
    lastcall,   \* the last load call: its frame, its table name and the table
                \* of that name it found in the database
    outputs     \* a label followed by the results of successive clean_column calls

vars == <<pc, response, parsed, extracted, lookup, data, db, num_rows, result,
          error, loaded, lastcall, outputs>>

flowVars == <<pc, response, parsed, extracted, lookup, data, result, error>>

\* ------------------------------------------------------------------ bounds

\* Most data rows in a fetched CSV body.
MaxRows == 3
\* Most rows of a DataFrame handed to load outside the flow.
MaxLoadRows == 2
\* Longest label given to clean_column on its own.
MaxLabelLen == 3
\* clean_column is applied at most this many times in a row.
MaxApplications == 2

\* ------------------------------------------------------------------ values

\* pandas' missing value: what read_csv makes of an empty field and what a
\* left join puts where the right side has no match.
NaN == -1

\* The values a CSV field parses to.
Fields == {1, 2, NaN}

NoDF == [none |-> TRUE]
NoBody == [nobody |-> TRUE]
NoResponse == [noresponse |-> TRUE]
NoTable == [notable |-> TRUE]
NoCount == -2
NoResult == "none"
NoError == [type |-> "none", at |-> "none"]

\* The literals of the program.
UserID == <<"u", "s", "e", "r", " ", "I", "D">>
NumberOfMeals == <<"n", "u", "m", "b", "e", "r", " ", "o", "f", " ", "m", "e", "a", "l", "s">>
TABLE_NAME == "tutorial"

\* Other labels a source CSV may carry.
Amount == <<"A", "m", "o", "u", "n", "t">>
IndexLabel == <<"i", "n", "d", "e", "x">>
Level0Label == <<"l", "e", "v", "e", "l", "_", "0">>

\* ------------------------------------------------------------ str methods

UpperCase == <<"A", "B", "C", "D", "E", "F", "G", "H", "I", "J", "K", "L", "M",
               "N", "O", "P", "Q", "R", "S", "T", "U", "V", "W", "X", "Y", "Z">>
LowerCase == <<"a", "b", "c", "d", "e", "f", "g", "h", "i", "j", "k", "l", "m",
               "n", "o", "p", "q", "r", "s", "t", "u", "v", "w", "x", "y", "z">>

\* str.lower on one character.
lower_char(c) ==
    IF \E k \in 1..26 : UpperCase[k] = c
    THEN LowerCase[CHOOSE k \in 1..26 : UpperCase[k] = c]
    ELSE c

\* str.swapcase on one character.
swapcase_char(c) ==
    IF \E k \in 1..26 : UpperCase[k] = c
    THEN LowerCase[CHOOSE k \in 1..26 : UpperCase[k] = c]
    ELSE IF \E k \in 1..26 : LowerCase[k] = c
         THEN UpperCase[CHOOSE k \in 1..26 : LowerCase[k] = c]
         ELSE c

\* str.lower
lower(s) == [i \in 1..Len(s) |-> lower_char(s[i])]

\* str.replace(old, new) for one-character old and new.
replace(s, old, new) == [i \in 1..Len(s) |-> IF s[i] = old THEN new ELSE s[i]]

\* A slip: swapcase instead of lower.
clean_column_swapcase(column_name) ==
    replace([i \in 1..Len(column_name) |-> swapcase_char(column_name[i])], " ", "_")

\* clean_column: column_name.lower().replace(' ', '_')
clean_column(column_name) == replace(lower(column_name), " ", "_")

\* --------------------------------------------------------------- pandas

RECURSIVE RangeIndex(_)
\* pandas.RangeIndex(n) as a sequence: 0, 1, ..., n-1.
RangeIndex(n) == IF n = 0 THEN <<>> ELSE Append(RangeIndex(n - 1), n - 1)

\* `label in df.columns`
HasColumn(df, label) == \E c \in 1..Len(df.columns) : df.columns[c] = label

\* The position of the column labelled `label` (labels are unique after read_csv).
ColPos(df, label) == CHOOSE c \in 1..Len(df.columns) : df.columns[c] = label

\* df[label] as a sequence of cells, in row order.
Column(df, label) == [i \in 1..Len(df.rows) |-> df.rows[i][ColPos(df, label)]]

RECURSIVE SortedSeq(_)
\* The elements of a finite set of integers in ascending order (groupby sorts
\* the group keys).
SortedSeq(S) ==
    IF S = {} THEN <<>>
    ELSE LET m == CHOOSE x \in S : \A y \in S : x <= y
         IN <<m>> \o SortedSeq(S \ {m})

\* Series.count() within one group: the non-missing cells equal to k.
GroupCount(col, k) == Cardinality({i \in 1..Len(col) : col[i] = k /\ col[i] # NaN})

\* df.groupby(key)[key].agg(['count']): groupby's default dropna=True leaves the
\* rows with a missing key out of every group; one row per remaining key value,
\* indexed by the key, in ascending key order.
groupby_count(df, key) ==
    LET col == Column(df, key)
        keys == SortedSeq({col[i] : i \in 1..Len(col)} \ {NaN})
    IN [columns |-> <<<<"c", "o", "u", "n", "t">>>>,
        index |-> keys,
        rows |-> [g \in 1..Len(keys) |-> <<GroupCount(col, keys[g])>>]]

\* number_of_rows_per_key, for a df that has the key column (groupby raises
\* KeyError otherwise, see transform).
number_of_rows_per_key(df, key, column_name) ==
    [groupby_count(df, key) EXCEPT !.columns = <<column_name>>]

\* `other`'s columns overlap df's: DataFrame.join raises ValueError (no suffix given).
ColumnsOverlap(df, other) ==
    \E c \in 1..Len(df.columns), d \in 1..Len(other.columns) :
        df.columns[c] = other.columns[d]

\* The positions of other's index entries equal to k, in order.
Matches(other, k) == SelectSeq(RangeIndex(Len(other.index)), LAMBDA j : other.index[j + 1] = k)

RECURSIVE LeftJoinFrom(_, _, _, _)
\* The left join's output from df's row i on: each left row once per matching
\* row of `other`, or once padded with NaN when nothing matches, keeping the
\* left row's index label.
LeftJoinFrom(df, other, k, i) ==
    IF i > Len(df.rows) THEN <<>>
    ELSE LET m == Matches(other, df.rows[i][k])
             pad == [d \in 1..Len(other.columns) |-> NaN]
             out == IF m = <<>>
                    THEN <<[idx |-> df.index[i], row |-> df.rows[i] \o pad]>>
                    ELSE [j \in 1..Len(m) |->
                            [idx |-> df.index[i], row |-> df.rows[i] \o other.rows[m[j] + 1]]]
         IN out \o LeftJoinFrom(df, other, k, i + 1)

RECURSIVE InnerJoinFrom(_, _, _, _)
InnerJoinFrom(df, other, k, i) ==
    IF i > Len(df.rows) THEN <<>>
    ELSE LET m == Matches(other, df.rows[i][k])
             out == [j \in 1..Len(m) |->
                       [idx |-> df.index[i], row |-> df.rows[i] \o other.rows[m[j] + 1]]]
         IN out \o InnerJoinFrom(df, other, k, i + 1)

\* A slip: how='inner' instead of the default how='left'.
join_inner(df, other, on) ==
    LET out == InnerJoinFrom(df, other, ColPos(df, on), 1)
    IN [columns |-> df.columns \o other.columns,
        index |-> [i \in 1..Len(out) |-> out[i].idx],
        rows |-> [i \in 1..Len(out) |-> out[i].row]]

\* df.join(other, on=on): a left join of df's column `on` against other's
\* index, for a df that has the column and shares no label with `other`.
join(df, other, on) ==
    LET out == LeftJoinFrom(df, other, ColPos(df, on), 1)
    IN [columns |-> df.columns \o other.columns,
        index |-> [i \in 1..Len(out) |-> out[i].idx],
        rows |-> [i \in 1..Len(out) |-> out[i].row]]

\* df.columns = [clean_column(col) for col in df.columns]
rename_columns(df) ==
    [df EXCEPT !.columns = [c \in 1..Len(df.columns) |-> clean_column(df.columns[c])]]

\* pd.read_csv(io.StringIO(text), sep=','): the first line is the header, every
\* later line a row, the index a RangeIndex; for a text that is not empty
\* (read_csv raises EmptyDataError on an empty one, see extract).
read_csv(text) ==
    [columns |-> text.header,
     index |-> RangeIndex(Len(text.lines)),
     rows |-> text.lines]

\* ------------------------------------------------------------------ SQLite

EmptyDB == [n \in {TABLE_NAME, "other"} |-> NoTable]

\* The label to_sql gives the index column (index=True, index_label=None, an
\* unnamed index): 'index', or 'level_0' when the frame has a column 'index'.
index_label(df) == IF HasColumn(df, IndexLabel) THEN Level0Label ELSE IndexLabel

\* The table to_sql creates from df: the index as the first column, then
\* df's columns; one row per row of df.
sql_table(df) ==
    [columns |-> <<index_label(df)>> \o df.columns,
     rows |-> [i \in 1..Len(df.rows) |-> <<df.index[i]>> \o df.rows[i]]]

\* A slip: if_exists='append' instead of 'replace'.
to_sql_append(d, df, table_name) ==
    IF d[table_name] = NoTable
    THEN [d EXCEPT ![table_name] = sql_table(df)]
    ELSE [d EXCEPT ![table_name].rows = @ \o sql_table(df).rows]

\* df.to_sql(table_name, con=engine, if_exists='replace'): an existing table of
\* that name is dropped, the table is created anew and df's rows are inserted.
to_sql(d, df, table_name) == [d EXCEPT ![table_name] = sql_table(df)]

\* SELECT COUNT(*) FROM table_name
select_count(d, table_name) == Len(d[table_name].rows)

\* ------------------------------------------------------------------ inputs

\* The headers of the CSV texts the server may send: with the key column first
\* or last, without it, with a column already called 'number of meals', and
\* with a column called 'index'.
Headers == {<<UserID, Amount>>, <<Amount, UserID>>, <<Amount>>,
            <<UserID, NumberOfMeals>>, <<UserID, IndexLabel>>}

\* Up to `most` rows of n fields each.
RowsOf(n, most) == UNION {[1..k -> [1..n -> Fields]] : k \in 0..most}

\* The empty text.
EmptyText == [header |-> <<>>, lines |-> <<>>]

\* The response bodies: a header line and data lines, or nothing at all.
Bodies ==
    UNION {{[header |-> h, lines |-> r] : r \in RowsOf(Len(h), MaxRows)} : h \in Headers}
    \cup {EmptyText}

\* The HTTP status codes the server may answer with.
Statuses == {200, 404}

\* The table names load is called with outside the flow.
TableNames == {TABLE_NAME, "other"}

\* The values of the cells of the frames load is called with outside the flow.
LoadFields == {1, 2}

\* The DataFrames load is called with outside the flow: one column, of either
\* of two labels, and up to MaxLoadRows rows.
LoadFrames ==
    {[columns |-> <<h>>, index |-> RangeIndex(Len(r)), rows |-> r] :
        h \in {UserID, Amount},
        r \in UNION {[1..k -> [1..1 -> LoadFields]] : k \in 0..MaxLoadRows}}

\* The characters of the labels clean_column is applied to on its own.
LabelChars == {"I", "d", " ", "_", "0"}

Labels == UNION {[1..k -> LabelChars] : k \in 0..MaxLabelLen}

NoCall == [nocall |-> TRUE]

\* --------------------------------------------------------------- my_flow

Raise(type, at) ==
    /\ error' = [type |-> type, at |-> at]
    /\ pc' = "failed"

\* extract(URL): requests.get either raises (the resource is unreachable) or
\* returns a response of any status; the status is never looked at, and the
\* response's text goes to read_csv, which raises on an empty text.
extract ==
    /\ pc = "extract"
    /\ \/ /\ Raise("ConnectionError", "requests.get")
          /\ UNCHANGED <<response, parsed, extracted, data>>
       \/ \E status \in Statuses, body \in Bodies :
            /\ response' = [status |-> status, body |-> body]
            /\ parsed' = body
            /\ IF body = EmptyText
               THEN /\ Raise("EmptyDataError", "read_csv")
                    /\ UNCHANGED <<extracted, data>>
               ELSE /\ extracted' = read_csv(body)
                    /\ data' = read_csv(body)
                    /\ pc' = "transform"
                    /\ UNCHANGED error
    /\ UNCHANGED <<lookup, db, num_rows, result, loaded, lastcall, outputs>>

\* A slip: the failure of the aggregation is swallowed and the run goes on
\* with the table as it was.
transform_swallow ==
    /\ pc = "transform"
    /\ IF ~HasColumn(data, UserID)
       THEN /\ pc' = "create_engine"
            /\ UNCHANGED <<lookup, data, error>>
       ELSE LET df_new_column == number_of_rows_per_key(data, UserID, NumberOfMeals)
            IN /\ lookup' = df_new_column
               /\ IF ColumnsOverlap(data, df_new_column)
                  THEN /\ Raise("ValueError", "join")
                       /\ UNCHANGED data
                  ELSE /\ data' = rename_columns(join(data, df_new_column, UserID))
                       /\ pc' = "create_engine"
                       /\ UNCHANGED error
    /\ UNCHANGED <<response, parsed, extracted, db, num_rows, result, loaded,
                   lastcall, outputs>>

\* transform(data): groupby raises KeyError when there is no 'user ID' column;
\* join raises ValueError when the table already has a column 'number of
\* meals'; otherwise the joined table, its labels cleaned, is returned.
transform ==
    /\ pc = "transform"
    /\ IF ~HasColumn(data, UserID)
       THEN /\ Raise("KeyError", "number_of_rows_per_key")
            /\ UNCHANGED <<lookup, data>>
       ELSE LET df_new_column == number_of_rows_per_key(data, UserID, NumberOfMeals)
            IN /\ lookup' = df_new_column
               /\ IF ColumnsOverlap(data, df_new_column)
                  THEN /\ Raise("ValueError", "join")
                       /\ UNCHANGED data
                  ELSE /\ data' = rename_columns(join(data, df_new_column, UserID))
                       /\ pc' = "create_engine"
                       /\ UNCHANGED error
    /\ UNCHANGED <<response, parsed, extracted, db, num_rows, result, loaded,
                   lastcall, outputs>>

\* engine = create_engine('sqlite://'): a new, empty in-memory database.
create_engine ==
    /\ pc = "create_engine"
    /\ db' = EmptyDB
    /\ pc' = "load"
    /\ UNCHANGED <<response, parsed, extracted, lookup, data, num_rows, result,
                   error, loaded, lastcall, outputs>>

\* num_rows = load(data, engine, TABLE_NAME): the write, then the count read back.
load ==
    /\ pc = "load"
    /\ db' = to_sql(db, data, TABLE_NAME)
    /\ num_rows' = select_count(to_sql(db, data, TABLE_NAME), TABLE_NAME)
    /\ loaded' = [loaded EXCEPT ![TABLE_NAME] = data]
    /\ lastcall' = [df |-> data, table_name |-> TABLE_NAME, before |-> db[TABLE_NAME]]
    /\ pc' = "return"
    /\ UNCHANGED <<response, parsed, extracted, lookup, data, result, error, outputs>>

\* A slip: the number of columns is compared instead of the number of rows.
row_count_matches_columns(df, n) == Len(df.columns) = n

\* len(data.index) == num_rows
row_count_matches(df, n) == Len(df.index) = n

\* return len(data.index) == num_rows
my_flow_return ==
    /\ pc = "return"
    /\ result' = row_count_matches(data, num_rows)
    /\ pc' = "done"
    /\ UNCHANGED <<response, parsed, extracted, lookup, data, db, num_rows, error,
                   loaded, lastcall, outputs>>

Init ==
    /\ pc = "extract"
    /\ response = NoResponse
    /\ parsed = NoBody
    /\ extracted = NoDF
    /\ lookup = NoDF
    /\ data = NoDF
    /\ db = EmptyDB
    /\ num_rows = NoCount
    /\ result = NoResult
    /\ error = NoError
    /\ loaded = [n \in TableNames |-> NoDF]
    /\ lastcall = NoCall
    /\ outputs = <<>>

Next == extract \/ transform \/ create_engine \/ load \/ my_flow_return

\* One run of my_flow.
Spec == Init /\ [][Next]_vars

\* ------------------------------------------------- load, called repeatedly

\* load(df, engine, table_name) on one engine, with any frame and table name.
load_call ==
    /\ pc = "lib"
    /\ \E df \in LoadFrames, table_name \in TableNames :
        /\ db' = to_sql(db, df, table_name)
        /\ num_rows' = select_count(to_sql(db, df, table_name), table_name)
        /\ loaded' = [loaded EXCEPT ![table_name] = df]
        /\ lastcall' = [df |-> df, table_name |-> table_name, before |-> db[table_name]]
    /\ UNCHANGED <<flowVars, outputs>>

InitLoad ==
    /\ pc = "lib"
    /\ response = NoResponse
    /\ parsed = NoBody
    /\ extracted = NoDF
    /\ lookup = NoDF
    /\ data = NoDF
    /\ db = EmptyDB
    /\ num_rows = NoCount
    /\ result = NoResult
    /\ error = NoError
    /\ loaded = [n \in TableNames |-> NoDF]
    /\ lastcall = NoCall
    /\ outputs = <<>>

NextLoad == load_call

\* Any sequence of load calls on one connection.
SpecLoad == InitLoad /\ [][NextLoad]_vars

\* ------------------------------------------- clean_column, called repeatedly

\* outputs[1] is a label; each step appends clean_column of the last output.
clean_call ==
    /\ pc = "lib"
    /\ Len(outputs) <= MaxApplications
    /\ outputs' = Append(outputs, clean_column(outputs[Len(outputs)]))
    /\ UNCHANGED <<flowVars, db, num_rows, loaded, lastcall>>

InitClean ==
    /\ pc = "lib"
    /\ response = NoResponse
    /\ parsed = NoBody
    /\ extracted = NoDF
    /\ lookup = NoDF
    /\ data = NoDF
    /\ db = EmptyDB
    /\ num_rows = NoCount
    /\ result = NoResult
    /\ error = NoError
    /\ loaded = [n \in TableNames |-> NoDF]
    /\ lastcall = NoCall
    /\ \E x \in Labels : outputs = <<x>>

NextClean == clean_call

\* clean_column applied to any label, and again to its own result.
SpecClean == InitClean /\ [][NextClean]_vars

\* ------------------------------------------------------------------ claims

\* transform has returned.
AfterTransform == pc \in {"create_engine", "load", "return", "done"}

\* The cells of extracted's key column.
KeyCells == Column(extracted, UserID)

RECURSIVE SumCounts(_, _)
\* The sum of the first g counts of a lookup.
SumCounts(lk, g) == IF g = 0 THEN 0 ELSE lk.rows[g][1] + SumCounts(lk, g - 1)

\* C1: for every input table with a 'user ID' column, transform returns the
\* same rows in the same order with every source value unchanged and exactly
\* one column added, whose value in each row is the number of input rows with
\* that row's 'user ID'; the labels are the normalized source labels followed
\* by 'number_of_meals'.
C1_TransformAddsCount ==
    (extracted # NoDF /\ pc \notin {"extract", "transform"}
        /\ HasColumn(extracted, UserID)) =>
        /\ AfterTransform
        /\ data.columns =
             [c \in 1..Len(extracted.columns) |-> clean_column(extracted.columns[c])]
             \o <<clean_column(NumberOfMeals)>>
        /\ Len(data.rows) = Len(extracted.rows)
        /\ \A i \in 1..Len(extracted.rows) :
             /\ Len(data.rows[i]) = Len(extracted.columns) + 1
             /\ SubSeq(data.rows[i], 1, Len(extracted.columns)) = extracted.rows[i]
             /\ data.rows[i][Len(extracted.columns) + 1] =
                  Cardinality({j \in 1..Len(KeyCells) : KeyCells[j] = KeyCells[i]})

\* C2: the lookup of number_of_rows_per_key has exactly one row per distinct
\* key value observed in the table, a missing key included, and its counts
\* sum to the number of rows of the table.
C2_LookupConservesRows ==
    lookup # NoDF =>
        /\ {lookup.index[g] : g \in 1..Len(lookup.index)} =
             {KeyCells[i] : i \in 1..Len(KeyCells)}
        /\ Len(lookup.index) = Cardinality({KeyCells[i] : i \in 1..Len(KeyCells)})
        /\ SumCounts(lookup, Len(lookup.rows)) = Len(extracted.rows)

\* C3: the join in transform yields exactly as many rows as the input table:
\* every input row appears exactly once, in its place, with its index label
\* and its source cells.
C3_JoinKeepsEveryRowOnce ==
    AfterTransform =>
        /\ Len(data.rows) = Len(extracted.rows)
        /\ data.index = extracted.index
        /\ \A i \in 1..Len(extracted.rows) :
             SubSeq(data.rows[i], 1, Len(extracted.columns)) = extracted.rows[i]

\* A table of three rows, two sharing a key and one with a missing key, has
\* gone through the join.
C3_Witness ==
    /\ AfterTransform
    /\ Len(extracted.rows) = 3
    /\ KeyCells = <<1, NaN, 1>>

\* C4: the merge never produces a row whose added count is null: when a row's
\* key has no entry in the lookup, the run aborts with a KeyMismatchError.
C4_NoNullCount ==
    /\ AfterTransform =>
         \A i \in 1..Len(data.rows) : data.rows[i][Len(data.columns)] # NaN
    /\ (lookup # NoDF /\ pc # "transform"
          /\ \E i \in 1..Len(KeyCells) :
               \A g \in 1..Len(lookup.index) : lookup.index[g] # KeyCells[i]) =>
         (pc = "failed" /\ error.type = "KeyMismatchError")

\* C5: load replaces: after any sequence of load calls the table of each name
\* holds exactly the rows of the frame last loaded under that name, and the
\* count a call returns is the number of rows of the frame passed to it.
C5_LoadReplaces ==
    /\ \A n \in TableNames :
         IF loaded[n] = NoDF
         THEN db[n] = NoTable
         ELSE /\ db[n] # NoTable
              /\ Len(db[n].rows) = Len(loaded[n].rows)
              /\ \A i \in 1..Len(loaded[n].rows) : Tail(db[n].rows[i]) = loaded[n].rows[i]
              /\ Tail(db[n].columns) = loaded[n].columns
    /\ lastcall # NoCall => num_rows = Len(lastcall.df.rows)

\* A load of a one-row frame has replaced a two-row table of the same name.
C5_Witness ==
    /\ lastcall # NoCall
    /\ lastcall.before # NoTable
    /\ Len(lastcall.before.rows) = 2
    /\ Len(lastcall.df.rows) = 1
    /\ num_rows = 1

\* C6: my_flow returns a boolean, without raising, that is true exactly when
\* the count read back from the sink equals the number of rows of the
\* transformed table.
C6_ResultIsCountComparison ==
    pc = "done" =>
        /\ result \in BOOLEAN
        /\ error = NoError
        /\ num_rows = Len(db[TABLE_NAME].rows)
        /\ result <=> (num_rows = Len(data.rows))

\* A run has returned after loading a table of two rows and three columns.
C6_Witness ==
    /\ pc = "done"
    /\ result = TRUE
    /\ Len(data.rows) = 2
    /\ Len(data.columns) = 3

\* C7: when the extracted table has no 'user ID' column the aggregation fails
\* with a key error, the run aborts and nothing is ever written to the sink.
C7_MissingKeyAbortsBeforeWrite ==
    (extracted # NoDF /\ ~HasColumn(extracted, UserID)) =>
        /\ pc \in {"transform", "failed"}
        /\ pc = "failed" => error = [type |-> "KeyError", at |-> "number_of_rows_per_key"]
        /\ db = EmptyDB
        /\ num_rows = NoCount
        /\ lastcall = NoCall

\* A run on a table of rows without a 'user ID' column has aborted.
C7_Witness ==
    /\ pc = "failed"
    /\ extracted # NoDF
    /\ ~HasColumn(extracted, UserID)
    /\ Len(extracted.rows) = 2
    /\ error.type = "KeyError"

\* C8: clean_column lowercases the label and replaces every space by an
\* underscore, altering no other character, and applying it again changes
\* nothing.
C8_CleanColumn ==
    /\ Len(outputs) >= 2 =>
         /\ Len(outputs[2]) = Len(outputs[1])
         /\ \A i \in 1..Len(outputs[1]) :
              /\ outputs[1][i] = " " => outputs[2][i] = "_"
              /\ \A k \in 1..26 : outputs[1][i] = UpperCase[k] => outputs[2][i] = LowerCase[k]
              /\ (outputs[1][i] # " " /\ \A k \in 1..26 : outputs[1][i] # UpperCase[k]) =>
                   outputs[2][i] = outputs[1][i]
    /\ Len(outputs) >= 3 => outputs[3] = outputs[2]

\* clean_column has been applied twice to a label with an upper-case letter,
\* a space and a lower-case letter.
C8_Witness ==
    /\ Len(outputs) = 3
    /\ outputs[1] = <<"I", " ", "d">>
    /\ outputs[3] = <<"i", "_", "d">>

\* C9: when the server answers with a non-success status, extract fails in
\* the fetch: the body is never handed to the parser and no later stage runs.
C9_FailedFetchAborts ==
    (response # NoResponse /\ response.status # 200) =>
        /\ parsed = NoBody
        /\ pc = "failed"
        /\ error.at = "requests.get"

\* C10: after load the columns of the persisted table are exactly the
\* normalized labels of the transformed table, and no other column.
C10_PersistedColumns ==
    (pc \in {"return", "done"}) =>
        {db[TABLE_NAME].columns[c] : c \in 1..Len(db[TABLE_NAME].columns)} =
        {data.columns[c] : c \in 1..Len(data.columns)}

====
